---- MODULE Spec2Model ----
(***************************************************************************)
(* Model of src/src/cnrt.rs: the extended Euclidean algorithm (bezout) and *)
(* the RemainderValue combinators new / make / extend / merge / exclude /  *)
(* verify, together with the fold driver test().                           *)
(*                                                                         *)
(* BigInt arithmetic is unbounded; the bounds below keep every             *)
(* intermediate product inside TLC's integer range.  BigInt `/` and `%`    *)
(* truncate toward zero and panic on a zero divisor.                       *)
(***************************************************************************)
EXTENDS Integers, Sequences, FiniteSets, TLC

VARIABLES x, y, last, call, ret

vars == <<x, y, last, call, ret>>

\* ---- bounds ----
MaxM   == 12    \* largest modulus / target handed to an operation
MaxN   == 9     \* largest |n| handed to make / verify / extend
MaxB   == 8     \* largest |x|, |y| handed to bezout
MaxSm  == 8     \* largest modulus / target handed to the state machine
MaxSn  == 5     \* largest |n|, |r1| handed to the state machine
MaxMod == 24    \* largest modulus the state machine lets a value grow to
MaxLen == 3     \* longest list of moduli folded
MaxFoldM == 6   \* largest modulus in a folded list
MaxFoldN == 7   \* largest small n folded

\* ---- arithmetic of num_bigint::BigInt ----
Abs(a) == IF a < 0 THEN -a ELSE a

\* BigInt `/` : quotient truncated toward zero (b # 0)
TDiv(a, b) ==
  IF (a >= 0) = (b > 0) THEN Abs(a) \div Abs(b) ELSE -(Abs(a) \div Abs(b))

\* BigInt `%` : remainder with the sign of the dividend (b # 0)
TRem(a, b) == a - b * TDiv(a, b)

\* ---- mathematical reference (not code) ----
Divides(d, a) == a % d = 0

GCD(a, b) ==
  CHOOSE d \in 1..(IF a > b THEN a ELSE b) :
    /\ Divides(d, a) /\ Divides(d, b)
    /\ \A e \in (d+1)..(IF a > b THEN a ELSE b) : ~(Divides(e, a) /\ Divides(e, b))

LCM(a, b) == (a * b) \div GCD(a, b)

RECURSIVE LCMSeq(_)
LCMSeq(s) == IF s = <<>> THEN 1 ELSE LCM(Head(s), LCMSeq(Tail(s)))

\* ---- cnrt.rs ----
into_mod_single(xx, m_r) == TRem(xx, m_r)

into_mod_abs(xx, m_r) == TRem(TRem(xx, m_r) + Abs(m_r), m_r)

\* fn into_mod: (x % m_r + m_r) % m_r, m_r # 0
into_mod(xx, m_r) == TRem(TRem(xx, m_r) + m_r, m_r)

RECURSIVE looper_s12(_, _, _, _, _, _)
looper_s12(x1, x2, s11, s21, s12, s22) ==
  IF x2 = 0 THEN <<s11, s21, x1>>
  ELSE LET k   == TDiv(x1, x2)
           x1n == TRem(x1, x2)
           s11n == s11 - k * s12
           s21n == s21 - k * s12
       IN looper_s12(x2, x1n, s12, s22, s11n, s21n)

\* fn looper inside bezout
RECURSIVE looper(_, _, _, _, _, _)
looper(x1, x2, s11, s21, s12, s22) ==
  IF x2 = 0 THEN <<s11, s21, x1>>
  ELSE LET k   == TDiv(x1, x2)
           x1n == TRem(x1, x2)
           s11n == s11 - k * s12
           s21n == s21 - k * s22
       IN looper(x2, x1n, s12, s22, s11n, s21n)

\* pub fn bezout: (u, v, c)
bezout(bx, by) == looper(bx, by, 1, 0, 0, 1)

find_cnrt_swapped(m1, m2, r1, r2) ==
  LET b == bezout(m1, m2)
      u == b[1]
      v == b[2]
      ans == r2 * v * m2 + r1 * u * m1
      mod12 == m1 * m2
  IN [r |-> into_mod(ans, mod12), m |-> mod12]

\* fn find_cnrt (mod12 # 0)
find_cnrt(m1, m2, r1, r2) ==
  LET b == bezout(m1, m2)
      u == b[1]
      v == b[2]
      ans == r2 * u * m1 + r1 * v * m2
      mod12 == m1 * m2
  IN [r |-> into_mod(ans, mod12), m |-> mod12]

\* RemainderValue::new
new == [r |-> 0, m |-> 1]

make_abs(n, m) == [r |-> into_mod_abs(n, m), m |-> m]

\* RemainderValue::make (m # 0; a zero m panics inside into_mod)
make(n, m) == [r |-> into_mod(n, m), m |-> m]

\* RemainderValue::extend
extend(self, m1, r1) == find_cnrt(self.m, m1, self.r, r1)

excludeRun_once(self, target, stack) ==
  LET c == bezout(self.m, target)[3] IN
  IF c # 1
  THEN LET m1  == TDiv(self.m, c)
           ans == [r |-> TRem(self.r, m1), m |-> m1]
       IN [val |-> ans, stack |-> Append(stack, [self |-> self, target |-> target, c |-> c]),
           loops |-> FALSE]
  ELSE [val |-> self, stack |-> stack, loops |-> FALSE]

RECURSIVE excludeRun_noshrink(_, _, _)
excludeRun_noshrink(self, target, stack) ==
  LET c == bezout(self.m, target)[3] IN
  IF c # 1
  THEN IF \E i \in 1..Len(stack) : stack[i].self = self /\ stack[i].target = target
       THEN [val |-> self, stack |-> stack, loops |-> TRUE]
       ELSE LET m1  == self.m
                ans == [r |-> TRem(self.r, m1), m |-> m1]
            IN excludeRun_noshrink(ans, c, Append(stack, [self |-> self, target |-> target, c |-> c]))
  ELSE [val |-> self, stack |-> stack, loops |-> FALSE]

\* RemainderValue::exclude, with the chain of recursive calls made so far:
\* `stack` holds one frame per call that recursed.  The recursion is
\* deterministic, so a call whose (self, target) is already on the stack
\* recurses forever (loops = TRUE) and never returns.
RECURSIVE excludeRun(_, _, _)
excludeRun(self, target, stack) ==
  LET c == bezout(self.m, target)[3] IN
  IF c # 1
  THEN IF \E i \in 1..Len(stack) : stack[i].self = self /\ stack[i].target = target
       THEN [val |-> self, stack |-> stack, loops |-> TRUE]
       ELSE LET m1  == TDiv(self.m, c)
                ans == [r |-> TRem(self.r, m1), m |-> m1]
            IN excludeRun(ans, c, Append(stack, [self |-> self, target |-> target, c |-> c]))
  ELSE [val |-> self, stack |-> stack, loops |-> FALSE]

exclude(self, target) == excludeRun(self, target, <<>>).val

mergeExtendCall_gcd(self, result2) ==
  LET c == bezout(self.m, result2.m)[3] IN
  IF c = 1
  THEN [self |-> self, m1 |-> result2.m, r1 |-> result2.r]
  ELSE LET self_prevail_factors == c
           obj2 == exclude(result2, self_prevail_factors)
       IN [self |-> exclude(self, obj2.m), m1 |-> obj2.m, r1 |-> obj2.r]

mergeExtendCall_keepself(self, result2) ==
  LET c == bezout(self.m, result2.m)[3] IN
  IF c = 1
  THEN [self |-> self, m1 |-> result2.m, r1 |-> result2.r]
  ELSE LET self_prevail_factors == TDiv(self.m, c)
           obj2 == exclude(result2, self_prevail_factors)
       IN [self |-> self, m1 |-> obj2.m, r1 |-> obj2.r]

\* RemainderValue::merge up to its call of extend: the receiver and the
\* arguments of that call
mergeExtendCall(self, result2) ==
  LET c == bezout(self.m, result2.m)[3] IN
  IF c = 1
  THEN [self |-> self, m1 |-> result2.m, r1 |-> result2.r]
  ELSE LET self_prevail_factors == TDiv(self.m, c)
           obj2 == exclude(result2, self_prevail_factors)
       IN [self |-> exclude(self, obj2.m), m1 |-> obj2.m, r1 |-> obj2.r]

merge_selfr(self, result2) ==
  LET e == mergeExtendCall(self, result2) IN extend(e.self, e.m1, self.r)

\* RemainderValue::merge
merge(self, result2) ==
  LET e == mergeExtendCall(self, result2) IN extend(e.self, e.m1, e.r1)

\* RemainderValue::verify
verify(self, n) == TRem(n, self.m) = self.r

\* test(): testers.map(make(num, m)).fold(new(), |r, cr1| r.merge(&cr1))
RECURSIVE fold(_, _, _)
fold(acc, num, testers) ==
  IF testers = <<>> THEN acc
  ELSE fold(merge(acc, make(num, Head(testers))), num, Tail(testers))

\* the number of test() and the leading moduli of its list
TestNum == 19122025
TestersHead == <<32, 12, 28, 77, 93>>

\* ---- state machine of a caller holding two values ----
\* x: the value the combinators are applied to; y: a second observation;
\* last: the operation applied last.
NoCall == [op |-> "none"]
Pending == [st |-> "pending"]

Init ==
  /\ x = new
  /\ y = new
  /\ last = "init"
  /\ call = NoCall
  /\ ret = Pending

\* let x = RemainderValue::new()
New ==
  /\ x' = new
  /\ last' = "new"
  /\ UNCHANGED <<y, call, ret>>

\* let y = RemainderValue::make(&n, &m)
Make(n, m) ==
  /\ y' = make(n, m)
  /\ last' = "make"
  /\ UNCHANGED <<x, call, ret>>

\* x = x.extend(&m1, &r1)
Extend(m1, r1) ==
  /\ x.m * m1 <= MaxMod
  /\ x' = extend(x, m1, r1)
  /\ last' = "extend"
  /\ UNCHANGED <<y, call, ret>>

\* x = x.merge(&y)
Merge ==
  /\ x.m * y.m <= MaxMod
  /\ x' = merge(x, y)
  /\ last' = "merge"
  /\ UNCHANGED <<y, call, ret>>

\* x = x.exclude(&target)
Exclude(target) ==
  /\ x' = exclude(x, target)
  /\ last' = "exclude"
  /\ UNCHANGED <<y, call, ret>>

Next ==
  \/ New
  \/ \E n \in -MaxSn..MaxSn, m \in 1..MaxSm : Make(n, m)
  \/ \E m1 \in 1..MaxSm, r1 \in -MaxSn..MaxSn : Extend(m1, r1)
  \/ Merge
  \/ \E target \in 1..MaxSm : Exclude(target)

Spec == Init /\ [][Next]_vars

\* ---- single calls on inputs drawn from bounded sets ----
Canon(maxm) == UNION { {[r |-> rr, m |-> mm] : rr \in 0..(mm-1)} : mm \in 1..maxm }

SeqsUpTo(S, n) == UNION { [1..k -> S] : k \in 0..n }

Calls ==
       { [op |-> "bezout", x |-> bx, y |-> by] :
           bx \in (-MaxB..MaxB) \ {0}, by \in (-MaxB..MaxB) \ {0} }
  \cup { [op |-> "make", n |-> n, m |-> m] : n \in -MaxN..MaxN, m \in -MaxM..MaxM }
  \cup { [op |-> "verify", n |-> n, m |-> m] : n \in -MaxN..MaxN, m \in 1..MaxM }
  \cup { [op |-> "extend", self |-> make(s.r, s.m), m1 |-> o.m, r1 |-> o.r] :
           s \in Canon(MaxM), o \in Canon(MaxM) }
  \cup { [op |-> "exclude", self |-> s, target |-> t] :
           s \in Canon(MaxM), t \in (-MaxM..MaxM) \ {0} }
  \cup { [op |-> "merge", self |-> s, other |-> o] :
           s \in Canon(MaxM), o \in Canon(MaxM) }
  \cup { [op |-> "test", num |-> n, testers |-> t] :
           n \in (0..MaxFoldN) \cup {TestNum}, t \in SeqsUpTo(1..MaxFoldM, MaxLen) }
  \cup { [op |-> "test", num |-> TestNum, testers |-> TestersHead] }

InitFn ==
  /\ x = new
  /\ y = new
  /\ last = "init"
  /\ call \in Calls
  /\ ret = Pending

CallBezout ==
  /\ call.op = "bezout" /\ ret.st = "pending"
  /\ LET b == bezout(call.x, call.y)
     IN ret' = [st |-> "returned", u |-> b[1], v |-> b[2], c |-> b[3]]
  /\ UNCHANGED <<x, y, last, call>>

\* make: into_mod divides by m, so a zero m panics before a value is built
CallMake ==
  /\ call.op = "make" /\ ret.st = "pending"
  /\ ret' = IF call.m = 0 THEN [st |-> "panicked"]
            ELSE [st |-> "returned", val |-> make(call.n, call.m)]
  /\ UNCHANGED <<x, y, last, call>>

\* make(&n, &m).verify(&n)
CallVerify ==
  /\ call.op = "verify" /\ ret.st = "pending"
  /\ ret' = [st |-> "returned", val |-> make(call.n, call.m),
             ok |-> verify(make(call.n, call.m), call.n)]
  /\ UNCHANGED <<x, y, last, call>>

CallExtend ==
  /\ call.op = "extend" /\ ret.st = "pending"
  /\ ret' = [st |-> "returned", val |-> extend(call.self, call.m1, call.r1)]
  /\ UNCHANGED <<x, y, last, call>>

\* exclude: returns, or recurses without end
CallExclude ==
  /\ call.op = "exclude" /\ ret.st = "pending"
  /\ LET e == excludeRun(call.self, call.target, <<>>)
     IN ret' = [st |-> IF e.loops THEN "diverged" ELSE "returned",
                val |-> exclude(call.self, call.target), stack |-> e.stack]
  /\ UNCHANGED <<x, y, last, call>>

CallMerge ==
  /\ call.op = "merge" /\ ret.st = "pending"
  /\ ret' = [st |-> "returned", val |-> merge(call.self, call.other),
             ext |-> mergeExtendCall(call.self, call.other)]
  /\ UNCHANGED <<x, y, last, call>>

CallTest ==
  /\ call.op = "test" /\ ret.st = "pending"
  /\ LET result == fold(new, call.num, call.testers)
     IN ret' = [st |-> "returned", val |-> result, ok |-> verify(result, call.num)]
  /\ UNCHANGED <<x, y, last, call>>

NextFn ==
  \/ CallBezout
  \/ CallMake
  \/ CallVerify
  \/ CallExtend
  \/ CallExclude
  \/ CallMerge
  \/ CallTest

SpecFn == InitFn /\ [][NextFn]_vars

\* ---- properties ----
Returned(opname) == call.op = opname /\ ret.st = "returned"

Finished(opname) == call.op = opname /\ ret.st # "pending"

Perms(s) == { [i \in 1..Len(s) |-> s[f[i]]] : f \in Permutations(1..Len(s)) }

RECURSIVE Pow2(_)
Pow2(k) == IF k = 0 THEN 1 ELSE 2 * Pow2(k - 1)

\* C1: folding merge over make(n, m_i) from new(), for n >= 0 and moduli
\* m_i >= 1 that need not be coprime, yields m = lcm of the m_i and
\* r = n mod m, verify(n) accepts the result, and every permutation of a
\* list of at most MaxLen moduli folds to the same value.
C1_FoldIsNumModLcm ==
  Returned("test") =>
    LET L == LCMSeq(call.testers) IN
      /\ ret.val = [r |-> call.num % L, m |-> L]
      /\ ret.ok
      /\ Len(call.testers) <= MaxLen =>
           \A p \in Perms(call.testers) : fold(new, call.num, p) = ret.val

C1_Witness ==
  /\ Returned("test")
  /\ call.num = TestNum
  /\ call.testers = TestersHead
  /\ ret.val.m = 229152
  /\ ret.ok

\* C2: for non-zero x, y of either sign bezout returns (u, v, c) with
\* u*x + v*y = c and abs(c) = gcd(|x|, |y|).
C2_BezoutIdentity ==
  Returned("bezout") =>
    /\ ret.u * call.x + ret.v * call.y = ret.c
    /\ Abs(ret.c) = GCD(Abs(call.x), Abs(call.y))

C2_Witness ==
  /\ Returned("bezout")
  /\ call.x < 0 /\ call.y > 0
  /\ ret.c < -1
  /\ ret.u # 0 /\ ret.v # 0

\* C3: for coprime m0, m1 >= 1, r0 in [0, m0), r1 in [0, m1),
\* make(r0, m0).extend(m1, r1) is (z, m0*m1) with z the only integer of
\* [0, m0*m1) that is r0 mod m0 and r1 mod m1.
C3_PairwiseCRT ==
  (Returned("extend") /\ GCD(call.self.m, call.m1) = 1) =>
    LET M == call.self.m * call.m1 IN
      /\ ret.val.m = M
      /\ ret.val.r \in 0..(M - 1)
      /\ \A z \in 0..(M - 1) :
           (z % call.self.m = call.self.r /\ z % call.m1 = call.r1) <=> z = ret.val.r

C3_Witness ==
  /\ Returned("extend")
  /\ call.self = [r |-> 3, m |-> 7] /\ call.m1 = 12 /\ call.r1 = 5
  /\ ret.val = [r |-> 17, m |-> 84]

\* C4: for a value with modulus m >= 1 and a target >= 1, exclude(target)
\* returns a value whose modulus is coprime to that target.
C4_ExcludeCoprime ==
  (Finished("exclude") /\ call.target >= 1) =>
    /\ ret.st = "returned"
    /\ ret.val.m >= 1
    /\ GCD(ret.val.m, call.target) = 1

C4_Witness ==
  /\ Returned("exclude")
  /\ call.self.m = 12 /\ call.target = 2
  /\ Len(ret.stack) = 2
  /\ ret.val.m = 3

\* C5: merge(new(), v) = v and merge(v, new()) = v for every canonical v,
\* and the same with make(n, 1) for any n in place of new().
C5_IdentityLaw ==
  Returned("merge") =>
    /\ call.self = new => ret.val = call.other
    /\ call.other = new => ret.val = call.self
    /\ \A n \in -MaxN..MaxN :
         /\ merge(make(n, 1), call.other) = call.other
         /\ merge(call.self, make(n, 1)) = call.self

C5_Witness ==
  /\ Returned("merge")
  /\ call.other = new
  /\ call.self.m = MaxM /\ call.self.r > 0
  /\ ret.val = call.self

\* C6: every value reached by new, make (n of either sign, m >= 1),
\* extend (m1 >= 1), merge and exclude (target >= 1) has m >= 1 and
\* 0 <= r < m.
C6_Canonical ==
  /\ x.m >= 1 /\ 0 <= x.r /\ x.r < x.m
  /\ y.m >= 1 /\ 0 <= y.r /\ y.r < y.m

C6_Witness ==
  /\ last = "exclude"
  /\ x.m > MaxSm /\ x.r > 0
  /\ y.m > 1 /\ y.r > 0

\* C7 as stated: make(n, m) ends in an arithmetic fault for every m <= 0.
C7_MakeFaultsNonPositive ==
  (Finished("make") /\ call.m <= 0) => ret.st = "panicked"

\* C7 amended: make(n, m) ends in an arithmetic fault for m = 0; for m < 0
\* it returns the value with modulus m and a residue in (m, 0].
C7_MakeFaultsZeroOnly ==
  Finished("make") =>
    /\ call.m = 0 => ret.st = "panicked"
    /\ call.m < 0 =>
         /\ ret.st = "returned"
         /\ ret.val.m = call.m
         /\ call.m < ret.val.r /\ ret.val.r <= 0

C7_Witness ==
  /\ Returned("make")
  /\ call.m < 0 /\ call.n > 0
  /\ ret.val.r < 0

\* the steps of an exclude call: it returned, every recursive step had a
\* gcd c > 1 dividing the modulus at hand, the modulus at least halved at
\* each step, the depth is at most log2(m), and the last call saw c = 1
ExcludeShrinks ==
  LET st == ret.stack
      n  == Len(st)
      mAfter(i) == IF i = n THEN ret.val.m ELSE st[i+1].self.m
      lastTarget == IF n = 0 THEN call.target ELSE st[n].c
  IN /\ ret.st = "returned"
     /\ \A i \in 1..n :
          /\ st[i].c > 1
          /\ TRem(st[i].self.m, st[i].c) = 0
          /\ mAfter(i) >= 1
          /\ 2 * mAfter(i) <= st[i].self.m
     /\ Pow2(n) <= call.self.m
     /\ bezout(ret.val.m, lastTarget)[3] = 1

\* C8 as stated: exclude terminates this way for every non-zero target,
\* negative ones included.
C8_ExcludeTerminatesAnyTarget ==
  (Finished("exclude") /\ call.self.m >= 1 /\ call.target # 0) => ExcludeShrinks

\* C8 amended: for a value with modulus m >= 1 and a target >= 1, exclude
\* terminates; each recursive step has a gcd c > 1 dividing the modulus,
\* which at least halves, so the depth is at most log2(m), ending at c = 1.
C8_ExcludeTerminatesPositiveTarget ==
  (Finished("exclude") /\ call.self.m >= 1 /\ call.target >= 1) => ExcludeShrinks

C8_Witness ==
  /\ Returned("exclude")
  /\ call.self.m = 8 /\ call.target = 2
  /\ Len(ret.stack) = 3
  /\ ret.val.m = 1

\* C9: when gcd(m0, m1) > 1, whatever the residues, merge calls extend on
\* a receiver and a modulus that are coprime and whose product is
\* lcm(m0, m1).
C9_MergeExtendsCoprime ==
  (Returned("merge") /\ GCD(call.self.m, call.other.m) > 1) =>
    /\ GCD(ret.ext.self.m, ret.ext.m1) = 1
    /\ ret.ext.self.m * ret.ext.m1 = LCM(call.self.m, call.other.m)
    /\ ret.val.m = LCM(call.self.m, call.other.m)

C9_Witness ==
  /\ Returned("merge")
  /\ call.self.m = 12 /\ call.other.m = 8
  /\ call.self.r % 4 # call.other.r % 4
  /\ ret.ext.self.m = 3 /\ ret.ext.m1 = 8

\* C10: make(n, m).verify(n) is true for every n of either sign and m >= 1.
C10_MakeVerifyRoundTrip ==
  Returned("verify") => ret.ok
====
